---- MODULE Spec2Model ----
(***************************************************************************)
(* A model of the automaton engine of src/tools/nfa.py (class NFA).        *)
(*                                                                         *)
(* A Python str is modelled as the sequence of its code points, so that    *)
(* sorting (sorted), concatenation ("".join) and number formatting (str)   *)
(* are computed as Python computes them: "q1" is <<113, 49>>.  A symbol    *)
(* of the alphabet is a one-character string, and an input string is the  *)
(* sequence of its characters.                                             *)
(*                                                                         *)
(* An automaton is a record                                                *)
(*   [states, alphabet, transitions, initial_state, final_states]          *)
(* where transitions is a function whose domain is the set of keys         *)
(* <<state, symbol>> present in the Python dict.                           *)
(***************************************************************************)
EXTENDS Integers, Sequences, FiniteSets, TLC

VARIABLES
    self,           \* the receiver of the operations
    automaton,      \* the second automaton object (the argument of union and intersection)
    pre_self,       \* self as it was when the last operation was called
    pre_automaton,  \* automaton as it was when the last operation was called
    op,             \* the last operation called ("init" before any)
    ret,            \* "ok", "True" or "False" as a query returned, or the exception raised
    calls,          \* the number of operations called so far
    limit           \* the number of operations the caller calls

vars == <<self, automaton, pre_self, pre_automaton, op, ret, calls, limit>>

----------------------------------------------------------------------------
(* Bounds of the model. *)

\* the longest input string accept() is tried on
MaxLen == 5
\* the longest sequence of public operations from the empty automata
MaxCalls == 4

----------------------------------------------------------------------------
(* Python strings. *)

EmptyStr == <<>>

\* s < t on Python strings: code point by code point, a proper prefix first
RECURSIVE StrLess(_, _)
StrLess(s, t) ==
    IF t = <<>> THEN FALSE
    ELSE IF s = <<>> THEN TRUE
    ELSE IF Head(s) = Head(t) THEN StrLess(Tail(s), Tail(t))
    ELSE Head(s) < Head(t)

\* sorted(S) for a set of strings
RECURSIVE sorted(_)
sorted(S) ==
    IF S = {} THEN <<>>
    ELSE LET m == CHOOSE x \in S : \A y \in S \ {x} : StrLess(x, y)
         IN <<m>> \o sorted(S \ {m})

\* "".join(seq)
RECURSIVE join(_)
join(seq) == IF seq = <<>> THEN <<>> ELSE Head(seq) \o join(Tail(seq))

\* str(n) for n >= 0
RECURSIVE str(_)
str(n) == IF n < 10 THEN <<48 + n>> ELSE str(n \div 10) \o <<48 + (n % 10)>>

\* the orders in which the elements of a set may be iterated
RECURSIVE orders(_)
orders(S) ==
    IF S = {} THEN {<<>>}
    ELSE UNION {{<<x>> \o r : r \in orders(S \ {x})} : x \in S}

\* {}
EmptyDict == [k \in {} |-> {}]

\* dict.get(key, set())
get(d, key) == IF key \in DOMAIN d THEN d[key] ELSE {}

\* d[key] = value
put(d, key, value) ==
    [k \in DOMAIN d \cup {key} |-> IF k = key THEN value ELSE d[k]]

\* d.update(e)
update(d, e) ==
    [k \in DOMAIN d \cup DOMAIN e |-> IF k \in DOMAIN e THEN e[k] ELSE d[k]]

----------------------------------------------------------------------------
(* The store. *)

\* NFA()
NewNFA ==
    [states |-> {}, alphabet |-> {}, transitions |-> EmptyDict,
     initial_state |-> EmptyStr, final_states |-> {}]

add_state(n, state) ==
    [n EXCEPT !.initial_state = IF @ = EmptyStr THEN state ELSE @,
              !.states = @ \cup {state}]

remove_state(n, state) ==
    IF state = n.initial_state THEN n
    ELSE LET kept == {k \in DOMAIN n.transitions :
                        ~(k[1] = state /\ k[2] \in n.alphabet)}
             nonempty == {k \in kept : n.transitions[k] \ {state} # {}}
         IN [n EXCEPT !.states = @ \ {state},
                      !.final_states = @ \ {state},
                      !.transitions = [k \in nonempty |-> n.transitions[k] \ {state}]]

toggle_final_state(n, state) ==
    IF state \in n.states
    THEN IF state \in n.final_states
         THEN [n EXCEPT !.final_states = @ \ {state}]
         ELSE [n EXCEPT !.final_states = @ \cup {state}]
    ELSE n

add_symbol(n, symbol) == [n EXCEPT !.alphabet = @ \cup {symbol}]

remove_symbol(n, symbol) ==
    [n EXCEPT !.alphabet = @ \ {symbol},
              !.transitions =
                  [k \in {j \in DOMAIN @ : ~(j[1] \in n.states /\ j[2] = symbol)}
                      |-> @[k]]]

\* set_transition raises KeyError
set_transition_raises(n, next_states) ==
    next_states # {} /\ ~(next_states \subseteq n.states)

set_transition(n, state, symbol, next_states) ==
    IF next_states = {}
    THEN [n EXCEPT !.transitions =
              [k \in DOMAIN @ \ {<<state, symbol>>} |-> @[k]]]
    ELSE IF next_states \subseteq n.states
    THEN [n EXCEPT !.transitions = put(@, <<state, symbol>>, next_states)]
    ELSE n

----------------------------------------------------------------------------
(* Acceptance. *)

\* the set of states after reading string from the set current
RECURSIVE run(_, _, _)
run(n, current, string) ==
    IF string = <<>> THEN current
    ELSE run(n,
             UNION {get(n.transitions, <<state, <<Head(string)>>>>) : state \in current},
             Tail(string))

accept(n, string) ==
    run(n, {n.initial_state}, string) \cap n.final_states # {}

is_deterministic(n) ==
    \A k \in DOMAIN n.transitions : Cardinality(n.transitions[k]) = 1

_find_reachable(n, states, symbol) ==
    UNION {get(n.transitions, <<state, symbol>>) : state \in states}

----------------------------------------------------------------------------
(* The minimizer. *)

\* remove_state for every state of S (the removals commute)
RECURSIVE remove_states(_, _)
remove_states(n, S) ==
    IF S = {} THEN n
    ELSE LET state == CHOOSE x \in S : TRUE
         IN remove_states(remove_state(n, state), S \ {state})

\* the while loop of remove_unreachable
RECURSIVE reachable_loop(_, _, _)
reachable_loop(n, reachable, new_reachable) ==
    IF new_reachable \subseteq reachable THEN reachable
    ELSE reachable_loop(n, reachable \cup new_reachable,
             UNION {get(n.transitions, <<state, symbol>>) :
                        state \in new_reachable, symbol \in n.alphabet})

\* (mutant) only the states one transition away from the initial state
reachable_states_one_step(n) ==
    {n.initial_state} \cup
    UNION {get(n.transitions, <<n.initial_state, symbol>>) : symbol \in n.alphabet}

reachable_states(n) == reachable_loop(n, {}, {n.initial_state})

remove_unreachable(n) == remove_states(n, n.states \ reachable_states(n))

\* the while loop of remove_dead
RECURSIVE alive_loop(_, _, _)
alive_loop(n, alive, new_alive) ==
    IF new_alive \subseteq alive THEN alive
    ELSE alive_loop(n, alive \cup new_alive,
             {k[1] : k \in {j \in DOMAIN n.transitions :
                              n.transitions[j] \cap (alive \cup new_alive) # {}}})

alive_states(n) == alive_loop(n, {}, n.final_states)

remove_dead(n) == remove_states(n, n.states \ alive_states(n))

\* list(self._transitions.get((state, symbol), {""}))[0]
first_target(n, state, symbol) ==
    IF <<state, symbol>> \in DOMAIN n.transitions
    THEN CHOOSE x \in n.transitions[<<state, symbol>>] : TRUE
    ELSE EmptyStr

_are_undistinguishable(n, state_a, state_b, undistinguishable) ==
    \A symbol \in n.alphabet :
        LET transition_a == first_target(n, state_a, symbol)
            transition_b == first_target(n, state_b, symbol)
        IN ~(transition_a # transition_b
             /\ {transition_a, transition_b} \notin undistinguishable)

\* the pairs (frozensets) of distinct elements of S
pairs_of(S) == {{a, b} : a \in S, b \in S} \ {{a} : a \in S}

\* the "find new distinguishable states" loop of merge_equivalent
RECURSIVE undistinguishable_loop(_, _)
undistinguishable_loop(n, undistinguishable) ==
    LET kept == {p \in undistinguishable :
                    \E state_a \in p : \E state_b \in p \ {state_a} :
                        _are_undistinguishable(n, state_a, state_b, undistinguishable)}
    IN IF kept = undistinguishable THEN undistinguishable
       ELSE undistinguishable_loop(n, kept)

undistinguishable_pairs(n) ==
    undistinguishable_loop(n,
        pairs_of(n.states \ n.final_states) \cup pairs_of(n.final_states))

\* (mutant) the transitions to the removed state are not rewritten
_merge_states_no_rewrite(n, state_a, state_b) ==
    IF state_b = n.initial_state \/ state_a \notin n.states
    THEN remove_state(n, state_a)
    ELSE remove_state(n, state_b)

_merge_states(n, state_a, state_b) ==
    LET swap == state_b = n.initial_state \/ state_a \notin n.states
        state_to_be_removed == IF swap THEN state_a ELSE state_b
        state_to_be_kept == IF swap THEN state_b ELSE state_a
        rewritten == [k \in DOMAIN n.transitions |->
                        IF n.transitions[k] = {state_to_be_removed}
                        THEN {state_to_be_kept} ELSE n.transitions[k]]
    IN remove_state([n EXCEPT !.transitions = rewritten], state_to_be_removed)

\* The merging loop of merge_equivalent: the set of pairs is iterated in any
\* order and each frozenset unpacks in any order.  configs is the set of
\* <<automaton, pairs still to merge>> the loop can be in after as many
\* iterations; the result is the set of automata it can end with.
merge_steps(c) ==
    UNION {{<<_merge_states(c[1], state_a, CHOOSE state_b \in p : state_b # state_a),
              c[2] \ {p}>> : state_a \in p} : p \in c[2]}

RECURSIVE merge_loop(_)
merge_loop(configs) ==
    IF \A c \in configs : c[2] = {} THEN {c[1] : c \in configs}
    ELSE merge_loop(UNION {merge_steps(c) : c \in configs})

\* merge_equivalent on a deterministic automaton: every automaton it can leave
merge_equivalent(n) == merge_loop({<<n, undistinguishable_pairs(n)>>})

\* (mutant) the equivalent states are merged before the dead ones are removed
minimize_merge_first(n) ==
    {remove_dead(m) : m \in merge_equivalent(remove_unreachable(n))}

\* minimize on a deterministic automaton: every automaton it can leave
minimize(n) == merge_equivalent(remove_dead(remove_unreachable(n)))

----------------------------------------------------------------------------
(* The determinizer. *)

\* _determinize_state, with the order symbols in which self._alphabet iterates;
\* determinize_symbols is its "for symbol in self._alphabet" loop from rest on
RECURSIVE _determinize_state(_, _, _), determinize_symbols(_, _, _, _, _)
_determinize_state(n, states_set, symbols) ==
    LET name == join(sorted(states_set))
    IN IF name # EmptyStr /\ name \notin n.states
       THEN LET added == add_state(n, name)
                marked == IF states_set \cap added.final_states # {}
                          THEN [added EXCEPT !.final_states = @ \cup {name}]
                          ELSE added
            IN determinize_symbols(marked, states_set, name, symbols, symbols)
       ELSE n

determinize_symbols(n, states_set, name, symbols, rest) ==
    IF rest = <<>> THEN n
    ELSE LET symbol == Head(rest)
             reachable == _find_reachable(n, states_set, symbol)
         IN IF reachable # {}
            THEN determinize_symbols(
                     _determinize_state(
                         [n EXCEPT !.transitions = put(@, <<name, symbol>>, reachable)],
                         reachable, symbols),
                     states_set, name, symbols, Tail(rest))
            ELSE determinize_symbols(n, states_set, name, symbols, Tail(rest))

\* the "create necessary states" loop of determinize over the target sets values
RECURSIVE determinize_loop(_, _, _)
determinize_loop(n, values, symbols) ==
    IF values = <<>> THEN n
    ELSE determinize_loop(_determinize_state(n, Head(values), symbols),
                          Tail(values), symbols)

\* the "rewrite transitions" step of determinize
rewrite_transitions(n) ==
    [n EXCEPT !.transitions =
        [k \in DOMAIN @ |-> {join(sorted(@[k]))}]]

\* determinize: every automaton it can leave.  The dict iterates in its
\* insertion order and the alphabet in its hash order: any order.  A target set
\* met a second time changes nothing (its name is a state by then), so the
\* orders of the distinct target sets of more than one state are all there is.
determinize(n) ==
    {rewrite_transitions(determinize_loop(n, values, symbols)) :
        values \in orders({n.transitions[k] :
                     k \in {j \in DOMAIN n.transitions :
                              Cardinality(n.transitions[j]) > 1}}),
        symbols \in orders(n.alphabet)}

----------------------------------------------------------------------------
(* The analysis queries. *)

\* remove_state called on the copy is_empty makes: copy.transitions is a shallow
\* copy, so each of its entries holds the very set object the original's dict
\* holds under the same key, and next_state.discard(state) empties both.
\* c is <<the copy, the original's transitions>>.
remove_state_of_copy(c, state) ==
    IF state = c[1].initial_state THEN c
    ELSE LET kept == {k \in DOMAIN c[1].transitions :
                        ~(k[1] = state /\ k[2] \in c[1].alphabet)}
         IN <<remove_state(c[1], state),
              [k \in DOMAIN c[2] |->
                  IF k \in kept THEN c[2][k] \ {state} ELSE c[2][k]]>>

RECURSIVE remove_states_of_copy(_, _)
remove_states_of_copy(c, unreachable) ==
    IF unreachable = <<>> THEN c
    ELSE remove_states_of_copy(remove_state_of_copy(c, Head(unreachable)),
                               Tail(unreachable))

\* is_empty: every <<value returned, transitions left in the receiver>>, over
\* the orders in which the unreachable states are removed from the copy
is_empty(n) ==
    {LET c == remove_states_of_copy(<<n, n.transitions>>, unreachable)
     IN <<c[1].final_states = {}, c[2]>> :
        unreachable \in orders(n.states \ reachable_states(n))}

\* _has_recursion: every value it can return, over the orders in which the
\* states to visit are appended
RECURSIVE _has_recursion(_, _, _)
_has_recursion(n, to_visit, visited) ==
    IF to_visit = <<>> THEN {FALSE}
    ELSE LET actual_state == Head(to_visit)
             seen == visited \cup {actual_state}
             reachable == UNION {_find_reachable(n, {actual_state}, symbol) :
                                    symbol \in n.alphabet}
         IN IF reachable \cap seen # {} THEN {TRUE}
            ELSE UNION {_has_recursion(n, Tail(to_visit) \o appended, seen) :
                           appended \in orders(reachable \ seen)}

\* is_finite: every value it can return
is_finite(n) == {~r : r \in _has_recursion(n, <<n.initial_state>>, {})}

----------------------------------------------------------------------------
(* The canonical renamings.  An operation that can raise yields a record  *)
(* [n, err]: the automaton as the call leaves it and "ok" or the          *)
(* exception.                                                             *)

\* the position of x in the sequence seq
index_of(seq, x) == CHOOSE i \in 1..Len(seq) : seq[i] = x

\* _beautify: initial state and states are assigned before the transitions
\* are looked up, so a KeyError leaves them renamed and the rest as it was
_beautify(n, beautiful_states) ==
    LET known == DOMAIN beautiful_states
        renamed == [n EXCEPT !.initial_state = beautiful_states[@],
                             !.states = {beautiful_states[s] : s \in known}]
        source(key) == CHOOSE j \in DOMAIN n.transitions :
                           <<beautiful_states[j[1]], j[2]>> = key
    IN IF \E k \in DOMAIN n.transitions :
              k[1] \notin known \/ ~(n.transitions[k] \subseteq known)
       THEN [n |-> renamed, err |-> "KeyError"]
       ELSE LET moved == [renamed EXCEPT !.transitions =
                    [key \in {<<beautiful_states[j[1]], j[2]>> : j \in DOMAIN @} |->
                        {beautiful_states[s] : s \in @[source(key)]}]]
            IN IF ~(n.final_states \subseteq known)
               THEN [n |-> moved, err |-> "KeyError"]
               ELSE [n |-> [moved EXCEPT !.final_states =
                                {beautiful_states[s] : s \in @}],
                     err |-> "ok"]

beautify_qn(n) ==
    LET rest == sorted(n.states \ {n.initial_state})
    IN _beautify(n,
           [s \in n.states \cup {n.initial_state} |->
               IF s = n.initial_state THEN <<113, 48>>
               ELSE <<113>> \o str(index_of(rest, s))])

beautify_abc(n) ==
    LET rest == sorted(n.states \ {n.initial_state})
        number(s) == IF index_of(rest, s) - 1 <= 17
                     THEN index_of(rest, s) - 1 ELSE index_of(rest, s)
    IN IF Cardinality(n.states) > 26
       THEN [n |-> n, err |-> "RuntimeError"]
       ELSE _beautify(n,
                [s \in n.states \cup {n.initial_state} |->
                    IF s = n.initial_state THEN <<83>> ELSE <<65 + number(s)>>])

----------------------------------------------------------------------------
(* The boolean combinators. *)

\* "qinitial"
qinitial == <<113, 105, 110, 105, 116, 105, 97, 108>>

\* "qdead"
qdead == <<113, 100, 101, 97, 100>>

\* the body of union after the two renamings: s and a are renamed
union_merge(s, a) ==
    LET first_initial == s.initial_state
        second_initial == a.initial_state
        new_state == qinitial
        merged == update(s.transitions, a.transitions)
        initial_states == {first_initial, second_initial}
    IN [states |-> s.states \cup {new_state} \cup {a.initial_state} \cup a.states,
        alphabet |-> s.alphabet,
        initial_state |-> new_state,
        \* "initial_states.intersection(self._final_states) != None" is always true
        final_states |-> s.final_states \cup a.final_states \cup {new_state},
        transitions |->
            [k \in DOMAIN merged \cup {<<new_state, symbol>> : symbol \in s.alphabet} |->
                IF k[1] = new_state /\ k[2] \in s.alphabet
                THEN get(merged, <<first_initial, k[2]>>)
                         \cup get(a.transitions, <<second_initial, k[2]>>)
                ELSE merged[k]]]

\* self.union(automaton): [self, automaton, err] as the call leaves them
union(s, a) ==
    IF sorted(s.alphabet) # sorted(a.alphabet)
    THEN [self |-> s, automaton |-> a, err |-> "RuntimeError"]
    ELSE LET abc == beautify_abc(s)
             qn == beautify_qn(a)
         IN IF abc.err # "ok"
            THEN [self |-> abc.n, automaton |-> a, err |-> abc.err]
            ELSE IF qn.err # "ok"
            THEN [self |-> abc.n, automaton |-> qn.n, err |-> qn.err]
            ELSE LET last == beautify_qn(union_merge(abc.n, qn.n))
                 IN [self |-> last.n, automaton |-> qn.n, err |-> last.err]

\* _explicit_dead_transitions: [n, err]
_explicit_dead_transitions(n) ==
    LET qn == beautify_qn(n)
        new_state == qdead
        added == add_state(qn.n, new_state)
    IN IF qn.err # "ok" THEN qn
       ELSE [n |-> [added EXCEPT !.transitions =
                       [k \in DOMAIN @ \cup (added.states \X added.alphabet) |->
                           IF k \in DOMAIN @ THEN @[k] ELSE {new_state}]],
             err |-> "ok"]

\* the toggle loop of complement
toggle_all(n) ==
    [n EXCEPT !.final_states = (@ \ n.states) \cup (n.states \ @)]

\* complement: every [n, err] it can leave
complement(n) ==
    {LET dead == _explicit_dead_transitions(d)
     IN IF dead.err # "ok" THEN dead
        ELSE [n |-> toggle_all(dead.n), err |-> "ok"] : d \in determinize(n)}

\* self.intersection(automaton): every [self, automaton, err] it can leave
intersection(s, a) ==
    UNION {IF ca.err # "ok"
           THEN {[self |-> s, automaton |-> ca.n, err |-> ca.err]}
           ELSE UNION {IF cs.err # "ok"
                       THEN {[self |-> cs.n, automaton |-> ca.n, err |-> cs.err]}
                       ELSE LET u == union(cs.n, ca.n)
                            IN IF u.err # "ok" THEN {u}
                               ELSE {[self |-> c.n, automaton |-> u.automaton,
                                      err |-> c.err] : c \in complement(u.self)}
                       : cs \in complement(s)}
           : ca \in complement(a)}

----------------------------------------------------------------------------
(* The automata the operations are called on. *)

\* "a", "b", "c", "ab"
name_a == <<97>>
name_b == <<98>>
name_c == <<99>>
name_ab == <<97, 98>>

\* "0", "1"
symbol_0 == <<48>>
symbol_1 == <<49>>

\* v is NFA(states, alphabet, transitions, initial_state, final_states) with
\* the given states S, initial state i, final states F and, as transitions, a
\* dict with the keys K whose target sets are among Targets
Constructed(v, S, Sigma, i, F, K, Targets) ==
    \E t \in [K -> Targets] :
        v = [states |-> S, alphabet |-> Sigma, transitions |-> t,
             initial_state |-> i, final_states |-> F]

\* v is an automaton over the state names Names that satisfies the invariants
\* of the store (initial state in states, final states and targets among the
\* states, keys over states and alphabet, no empty target set) and has at most
\* entries transitions
IsAutomaton(v, Names, Sigma, entries) ==
    \E S \in SUBSET Names \ {{}} :
       \E i \in S, F \in SUBSET S :
         \E K \in {J \in SUBSET (S \X Sigma) : Cardinality(J) <= entries} :
            Constructed(v, S, Sigma, i, F, K, SUBSET S \ {{}})

\* the same, deterministic: every target set holds one state
IsDeterministicAutomaton(v, Names, Sigma, entries) ==
    \E S \in SUBSET Names \ {{}} :
       \E i \in S, F \in SUBSET S :
         \E K \in {J \in SUBSET (S \X Sigma) : Cardinality(J) <= entries} :
            Constructed(v, S, Sigma, i, F, K, {{x} : x \in S})

\* v is the automaton created empty, given the alphabet Sigma
IsEmptyAutomaton(v, Sigma) == v = [NewNFA EXCEPT !.alphabet = Sigma]

\* the strings of at most n characters over the alphabet Sigma
Words(Sigma, n) == UNION {[1..m -> {symbol[1] : symbol \in Sigma}] : m \in 0..n}

\* the language of n, up to the strings of MaxLen characters
Language(n) == {string \in Words(n.alphabet, MaxLen) : accept(n, string)}

----------------------------------------------------------------------------
(* The operations, called on the receiver who: "self" or "automaton". *)

Exceptions == {"KeyError", "RuntimeError"}

\* a returned bool, as ret holds it
bool(b) == IF b THEN "True" ELSE "False"

Receivers == {"self", "automaton"}

object(who) == IF who = "self" THEN self ELSE automaton

argument(who) == IF who = "self" THEN automaton ELSE self

\* a call may follow when the caller has calls left and nothing was raised
MayCall == calls < limit /\ ret \notin Exceptions

\* the call name on who returned or raised result and left the receiver as n
Returns(name, who, n, result) ==
    /\ pre_self' = self
    /\ pre_automaton' = automaton
    /\ self' = IF who = "self" THEN n ELSE self
    /\ automaton' = IF who = "self" THEN automaton ELSE n
    /\ op' = name
    /\ ret' = result
    /\ calls' = calls + 1
    /\ limit' = limit

\* the same for union and intersection, which leave both automata as r
ReturnsBoth(name, who, r) ==
    /\ pre_self' = self
    /\ pre_automaton' = automaton
    /\ self' = IF who = "self" THEN r.self ELSE r.automaton
    /\ automaton' = IF who = "self" THEN r.automaton ELSE r.self
    /\ op' = name
    /\ ret' = r.err
    /\ calls' = calls + 1
    /\ limit' = limit

AddState(who, state) ==
    /\ MayCall
    /\ Returns("add_state", who, add_state(object(who), state), "ok")

RemoveState(who, state) ==
    /\ MayCall
    /\ Returns("remove_state", who, remove_state(object(who), state), "ok")

ToggleFinalState(who, state) ==
    /\ MayCall
    /\ Returns("toggle_final_state", who, toggle_final_state(object(who), state), "ok")

AddSymbol(who, symbol) ==
    /\ MayCall
    /\ Returns("add_symbol", who, add_symbol(object(who), symbol), "ok")

RemoveSymbol(who, symbol) ==
    /\ MayCall
    /\ Returns("remove_symbol", who, remove_symbol(object(who), symbol), "ok")

SetTransition(who, state, symbol, next_states) ==
    /\ MayCall
    /\ Returns("set_transition", who,
               set_transition(object(who), state, symbol, next_states),
               IF set_transition_raises(object(who), next_states)
               THEN "KeyError" ELSE "ok")

Determinize(who) ==
    /\ MayCall
    /\ \E d \in determinize(object(who)) :
          Returns("determinize", who, d, "ok")

Minimize(who) ==
    /\ MayCall
    /\ IF is_deterministic(object(who))
       THEN \E m \in minimize(object(who)) : Returns("minimize", who, m, "ok")
       ELSE Returns("minimize", who, object(who), "RuntimeError")

Union(who) ==
    /\ MayCall
    /\ ReturnsBoth("union", who, union(object(who), argument(who)))

Complement(who) ==
    /\ MayCall
    /\ \E c \in complement(object(who)) :
          Returns("complement", who, c.n, c.err)

Intersection(who) ==
    /\ MayCall
    /\ \E r \in intersection(object(who), argument(who)) :
          ReturnsBoth("intersection", who, r)

BeautifyQn(who) ==
    /\ MayCall
    /\ LET b == beautify_qn(object(who))
       IN Returns("beautify_qn", who, b.n, b.err)

BeautifyAbc(who) ==
    /\ MayCall
    /\ LET b == beautify_abc(object(who))
       IN Returns("beautify_abc", who, b.n, b.err)

IsEmpty(who) ==
    /\ MayCall
    /\ \E e \in is_empty(object(who)) :
          Returns("is_empty", who, [object(who) EXCEPT !.transitions = e[2]],
                  bool(e[1]))

IsFinite(who) ==
    /\ MayCall
    /\ \E f \in is_finite(object(who)) :
          Returns("is_finite", who, object(who), bool(f))

----------------------------------------------------------------------------
(* The specifications. *)

\* before the first call
Start(n) ==
    /\ pre_self = self
    /\ pre_automaton = automaton
    /\ op = "init"
    /\ ret = "ok"
    /\ calls = 0
    /\ limit = n

\* Sequences of public operations on two automata created empty.
StateArgs == {name_a, name_b}
SymbolArgs == {symbol_0}

Init ==
    /\ self = NewNFA
    /\ automaton = NewNFA
    /\ Start(MaxCalls)

Next ==
    \E who \in Receivers :
        \/ \E state \in StateArgs : AddState(who, state)
        \/ \E state \in StateArgs : RemoveState(who, state)
        \/ \E state \in StateArgs : ToggleFinalState(who, state)
        \/ \E symbol \in SymbolArgs : AddSymbol(who, symbol)
        \/ \E symbol \in SymbolArgs : RemoveSymbol(who, symbol)
        \/ \E state \in StateArgs, symbol \in SymbolArgs, next_states \in SUBSET StateArgs :
               SetTransition(who, state, symbol, next_states)
        \/ Determinize(who)
        \/ Minimize(who)
        \/ Union(who)
        \/ Complement(who)
        \/ Intersection(who)
        \/ BeautifyQn(who)
        \/ BeautifyAbc(who)

Spec == Init /\ [][Next]_vars

\* Sequences of store mutators on one automaton created empty.
InitStore ==
    /\ self = NewNFA
    /\ automaton = NewNFA
    /\ Start(MaxCalls)

NextStore ==
    \/ \E state \in StateArgs : AddState("self", state)
    \/ \E state \in StateArgs : RemoveState("self", state)
    \/ \E state \in StateArgs : ToggleFinalState("self", state)
    \/ \E symbol \in SymbolArgs : AddSymbol("self", symbol)
    \/ \E symbol \in SymbolArgs : RemoveSymbol("self", symbol)
    \/ \E state \in StateArgs, symbol \in SymbolArgs, next_states \in SUBSET StateArgs :
           SetTransition("self", state, symbol, next_states)

SpecStore == InitStore /\ [][NextStore]_vars

\* The analysis queries, each called once on an automaton of up to three states.
QueryNames == {name_a, name_b, name_c}
QueryAlphabet == {symbol_0, symbol_1}
QueryEntries == 2

InitQuery ==
    /\ \/ IsAutomaton(self, QueryNames, QueryAlphabet, QueryEntries)
       \/ IsEmptyAutomaton(self, QueryAlphabet)
    /\ automaton = NewNFA
    /\ Start(1)

NextQuery == IsEmpty("self") \/ IsFinite("self")

SpecQuery == InitQuery /\ [][NextQuery]_vars

\* minimize called twice in a row on a deterministic automaton: of up to three
\* states over two symbols, or of up to four states over one symbol.
MinimizeNames == {name_a, name_b, name_c}
MinimizeAlphabet == {symbol_0, symbol_1}
MinimizeEntries == 4

InitMinimize ==
    /\ \/ IsDeterministicAutomaton(self, MinimizeNames, MinimizeAlphabet, MinimizeEntries)
       \/ IsDeterministicAutomaton(self, MinimizeNames \cup {name_ab}, {symbol_0},
                                   MinimizeEntries)
       \/ IsEmptyAutomaton(self, MinimizeAlphabet)
    /\ automaton = NewNFA
    /\ Start(2)

NextMinimize == Minimize("self")

SpecMinimize == InitMinimize /\ [][NextMinimize]_vars

\* determinize and complement, each called once on an automaton of up to
\* three states, one of them named as the other two joined.
DeterminizeNames == {name_a, name_b, name_ab}
DeterminizeAlphabet == {symbol_0, symbol_1}
DeterminizeEntries == 2

InitDeterminize ==
    /\ IsAutomaton(self, DeterminizeNames, DeterminizeAlphabet, DeterminizeEntries)
    /\ automaton = NewNFA
    /\ Start(1)

NextDeterminize == Determinize("self") \/ Complement("self")

SpecDeterminize == InitDeterminize /\ [][NextDeterminize]_vars

\* union and intersection, each called once on two automata of up to two
\* states over the same alphabet.
UnionNames == {name_a, name_b}
UnionAlphabet == {symbol_0}
UnionEntries == 2

InitUnion ==
    /\ IsAutomaton(self, UnionNames, UnionAlphabet, UnionEntries)
    /\ IsAutomaton(automaton, UnionNames, UnionAlphabet, UnionEntries)
    /\ Start(1)

NextUnion == Union("self") \/ Intersection("self")

SpecUnion == InitUnion /\ [][NextUnion]_vars

----------------------------------------------------------------------------
(* The analysis queries against the language. *)

\* The language of n is finite.  An automaton of k states whose language is
\* infinite accepts a string of at least k and fewer than 2k characters (it
\* pumps a shortest long string down), and one that accepts a string of at
\* least k characters accepts infinitely many (it pumps it up).
LanguageIsFinite(n) ==
    LET k == Cardinality(n.states \cup {n.initial_state})
    IN \A string \in Words(n.alphabet, 2 * k - 1) :
          Len(string) >= k => ~accept(n, string)

\* n accepts no string of at most MaxLen characters over its alphabet
AcceptsNone(n) == \A string \in Words(n.alphabet, MaxLen) : ~accept(n, string)

\* C7: is_finite() returns true iff the language of the automaton is finite.
IsFiniteIffLanguageFinite ==
    op = "is_finite" => (ret = "True" <=> LanguageIsFinite(pre_self))

\* C8: is_empty() returns true iff the automaton accepts no string over its
\* alphabet (as it was when called, and as the call leaves it).
IsEmptyIffNoStringAccepted ==
    op = "is_empty" =>
        /\ ret = "True" <=> AcceptsNone(pre_self)
        /\ self # pre_self => (ret = "True" <=> AcceptsNone(self))

\* is_empty() returned true for an automaton that has final states, none of
\* them reachable, and false for none
IsEmptyWitness ==
    /\ op = "is_empty"
    /\ ret = "True"
    /\ pre_self.final_states # {}
    /\ Cardinality(pre_self.states) = 3
    /\ DOMAIN pre_self.transitions # {}

----------------------------------------------------------------------------
(* The minimizer against the language. *)

\* C5: minimize() on a deterministic automaton raises nothing, leaves no more
\* states than there were and accepts exactly the strings accepted before,
\* whatever the order in which the undistinguishable pairs are merged.
MinimizePreservesLanguage ==
    (op = "minimize" /\ is_deterministic(pre_self)) =>
        /\ ret = "ok"
        /\ Cardinality(self.states) <= Cardinality(pre_self.states)
        /\ \/ self = pre_self
           \/ \A string \in Words(pre_self.alphabet, MaxLen) :
                 accept(self, string) = accept(pre_self, string)

\* minimize() merged two equivalent states of an automaton of three reachable,
\* live states that accepts some string and not all
MinimizeWitness ==
    /\ op = "minimize"
    /\ calls = 1
    /\ ret = "ok"
    /\ Cardinality(pre_self.states) = 3
    /\ remove_unreachable(pre_self) = pre_self
    /\ remove_dead(pre_self) = pre_self
    /\ undistinguishable_pairs(pre_self) # {}
    /\ Cardinality(self.states) = 2
    /\ Language(self) # {}
    /\ Language(self) # Words(self.alphabet, MaxLen)

\* C6: a second minimize() right after a first one changes nothing: states,
\* transitions, initial state and final states stay as the first call left them.
MinimizeIdempotent ==
    (op = "minimize" /\ calls = 2 /\ ret = "ok") =>
        /\ self.states = pre_self.states
        /\ self.transitions = pre_self.transitions
        /\ self.initial_state = pre_self.initial_state
        /\ self.final_states = pre_self.final_states

\* the second minimize() returned, on an automaton of two states with
\* transitions that the first call left
MinimizeTwiceWitness ==
    /\ op = "minimize"
    /\ calls = 2
    /\ ret = "ok"
    /\ Cardinality(pre_self.states) >= 2
    /\ DOMAIN pre_self.transitions # {}
    /\ pre_self.final_states # {}

----------------------------------------------------------------------------
(* The determinizer and the combinators against the language. *)

\* C3: determinize() leaves a deterministic automaton that accepts exactly
\* the strings accepted before, whatever the names of the states.
DeterminizePreservesLanguage ==
    op = "determinize" =>
        /\ is_deterministic(self)
        /\ Language(self) = Language(pre_self)

\* C4: complement() leaves an automaton that accepts exactly the strings over
\* the alphabet that were not accepted before.
ComplementNegatesLanguage ==
    (op = "complement" /\ ret = "ok") =>
        Language(self) = Words(pre_self.alphabet, MaxLen) \ Language(pre_self)

\* C1: union() leaves in the receiver an automaton that accepts exactly the
\* strings that the receiver or the argument accepted before.
UnionIsUnionOfLanguages ==
    (op = "union" /\ ret = "ok") =>
        Language(self) = Language(pre_self) \cup Language(pre_automaton)

\* C2: intersection() leaves in the receiver an automaton that accepts exactly
\* the strings that the receiver and the argument both accepted before.
IntersectionIsIntersectionOfLanguages ==
    (op = "intersection" /\ ret = "ok") =>
        Language(self) = Language(pre_self) \cap Language(pre_automaton)

----------------------------------------------------------------------------
(* The invariants of the store over the sequences of operations. *)

\* C9: after operations that all returned, in either automaton every target
\* of every transition is a state, the final states are states, and the
\* initial state is a state once there is one.
NoDanglingReference ==
    ret \notin Exceptions =>
        \A n \in {self, automaton} :
            /\ \A k \in DOMAIN n.transitions : n.transitions[k] \subseteq n.states
            /\ n.final_states \subseteq n.states
            /\ n.states # {} => n.initial_state \in n.states

\* C10: after operations that all returned, in either automaton no key of the
\* transition table maps to the empty set.
NoEmptyTargetSet ==
    ret \notin Exceptions =>
        \A n \in {self, automaton} :
            \A k \in DOMAIN n.transitions : n.transitions[k] # {}

\* C11: after store mutators that all returned, starting from the empty
\* automaton, every key of the transition table is a pair of a state of the
\* automaton and a symbol of its alphabet.
TransitionKeysAreDeclared ==
    ret \notin Exceptions =>
        \A k \in DOMAIN self.transitions :
            k[1] \in self.states /\ k[2] \in self.alphabet

----------------------------------------------------------------------------
(* The frame of the queries. *)

\* C12: is_empty() leaves the receiver as it was: the same states, alphabet,
\* initial state, final states, and the same transition table, key by key and
\* target set by target set.
IsEmptyLeavesReceiverUnchanged ==
    op = "is_empty" => self = pre_self

====
